---- MODULE Spec2Model ----
(***************************************************************************)
(* Token lifecycle and authenticated request forwarding of the OpenEMR     *)
(* API proxy: the token cache, the single in-flight token fetch and the    *)
(* retry-on-401 wrapper openemrRequest, run by concurrent route handlers   *)
(* on one Node.js event loop.                                              *)
(***************************************************************************)
EXTENDS Integers, Sequences, FiniteSets, TLC

\* ---------------------------------------------------------------- bounds
\* Number of openemrRequest calls (route-handler invocations) in a run.
NumReq == 2
\* Number of clock advances in a run.
MaxTicks == 2

\* Clock advances, in milliseconds: one millisecond, and one millisecond less
\* than the window in which a 300-second token is served from the cache.
TickSteps == {1, 289999}

Requests == 1..NumReq

\* ------------------------------------------------------- program constants
refreshBufferMs == 10000
DefaultExpiresInSeconds == 300
DefaultTtlMs == 300000
Unauthorized == 401

\* --------------------------------------------------------------- strings
\* A string is a sequence of characters; " " stands for any whitespace.
Whitespace == {" "}

RECURSIVE TrimStart(_)
TrimStart(s) ==
  IF s # <<>> /\ Head(s) \in Whitespace THEN TrimStart(Tail(s)) ELSE s

RECURSIVE TrimEnd(_)
TrimEnd(s) ==
  IF s # <<>> /\ s[Len(s)] \in Whitespace
    THEN TrimEnd(SubSeq(s, 1, Len(s) - 1))
    ELSE s

\* String.prototype.trim
Trim(s) == TrimEnd(TrimStart(s))

\* ------------------------------------------------------------ JSON values
\* A field of the token response: absent, a string, a number, or a value
\* that Number() maps to NaN.
Absent == [t |-> "absent", s |-> <<>>, n |-> 0]
Str(s) == [t |-> "str", s |-> s, n |-> 0]
Num(n) == [t |-> "num", s |-> <<>>, n |-> n]
NotANumber == [t |-> "nan", s |-> <<>>, n |-> 0]

\* access_token fields the authorization server may send
AccessPayloads ==
  {Absent, Str(<<>>), Str(<<" ">>), Str(<<"a">>), Str(<<" ", "b", " ">>)}

\* expires_in fields the authorization server may send
ExpiresPayloads == {Absent, Num(1), Num(300)}

\* ---------------------------------------------------------- configuration
\* The .env placeholder that requiredEnv treats like a missing value.
Placeholder == <<"replace_me">>

\* The names each setting is read from, in the order they are tried.
Settings ==
  {<<"PORT">>, <<"OPENEMR_BASE">>,
   <<"CLIENT_ID", "OPENEMR_CLIENT_ID">>,
   <<"CLIENT_SECRET", "OPENEMR_CLIENT_SECRET">>,
   <<"USERNAME", "OPENEMR_USERNAME">>,
   <<"PASSWORD", "OPENEMR_PASSWORD">>,
   <<"USER_ROLE", "OPENEMR_USER_ROLE">>,
   <<"OPENEMR_TOKEN_PATH">>, <<"OPENEMR_TOKEN_SCOPE">>,
   <<"OPENEMR_TIMEOUT_MS">>}

NamesOf(setting) == {setting[i] : i \in 1..Len(setting)}
EnvNames == UNION {NamesOf(setting) : setting \in Settings}

\* A well-formed value of a variable.
Good(name) ==
  IF name \in {"PORT", "OPENEMR_TIMEOUT_MS"} THEN <<"5", "0">>
  ELSE IF name = "OPENEMR_BASE" THEN <<"u", "/">>
  ELSE <<"x">>

\* What a variable may hold: nothing, an empty or blank string, the
\* placeholder, or a well-formed value.
EnvValues(name) ==
  {Absent, Str(<<>>), Str(<<" ">>), Str(Placeholder), Str(Good(name))}

\* The environment of a complete .env: every setting under its first name.
CompleteEnv ==
  [name \in EnvNames |->
     IF \E setting \in Settings : setting[1] = name
       THEN Str(Good(name)) ELSE Absent]

\* The environments considered: a complete one in which the variables of one
\* setting hold any of their values.
Envs ==
  UNION {
    {[name \in EnvNames |->
        IF name \in NamesOf(setting) THEN v[name] ELSE CompleteEnv[name]] :
       v \in {w \in [NamesOf(setting) -> UNION {EnvValues(n) : n \in EnvNames}] :
                \A n \in NamesOf(setting) : w[n] \in EnvValues(n)}} :
    setting \in Settings}

\* ----------------------------------------------------------------- errors
NoErr == [kind |-> "none", status |-> 0, at |-> "none", id |-> 0]
\* An axios error: kind "status" carries err.response.status, kind
\* "noresponse" (a timeout or a network failure) carries no response; kind
\* "payload" is the Error thrown for a token response without a usable
\* access_token.  `at` and `id`
\* identify the request that raised it.
Err(kind, status, at, id) ==
  [kind |-> kind, status |-> status, at |-> at, id |-> id]

\* Settlements of the POST to the token endpoint.
TokenResponses ==
  [kind : {"ok"}, status : {200}, access_token : AccessPayloads,
   expires_in : ExpiresPayloads]
  \cup [kind : {"status"}, status : {401}, access_token : {Absent},
        expires_in : {Absent}]
  \cup [kind : {"noresponse"}, status : {0}, access_token : {Absent},
        expires_in : {Absent}]

\* Settlements of a resource call.
ResourceResponses ==
  [kind : {"ok"}, status : {200}]
  \cup [kind : {"status"}, status : {401, 500}]
  \cup [kind : {"noresponse"}, status : {0}]

\* ------------------------------------------------------------------ state
VARIABLES
  env,           \* process.env after dotenv has loaded the .env files
  boot,          \* how far module initialisation got, and the configuration
  now,           \* Date.now(), in milliseconds
  ticks,         \* clock advances so far
  tokenCache,    \* the cached token (present = FALSE models null)
  tokenPromise,  \* id of the fetch the in-flight marker refers to, 0 = null
  fetches,       \* the token fetches that have not settled yet
  nFetches,      \* authorization requests started so far
  lastSettled,   \* the most recent settlement of a token fetch
  cacheMeta,     \* which fetch wrote tokenCache, when, from which expires_in
  req            \* the openemrRequest calls

vars ==
  <<env, boot, now, ticks, tokenCache, tokenPromise, fetches, nFetches,
    lastSettled, cacheMeta, req>>

\* The process environment and the module constants: fixed once loaded.
proc == <<env, boot>>

NoCache == [present |-> FALSE, accessToken |-> <<>>, expiresAtMs |-> 0]
NoMeta == [fetch |-> 0, storedAt |-> 0, expires_in |-> Absent]
NoSettle == [id |-> 0, kind |-> "none", access_token |-> Absent]
NoOut == [st |-> "none", err |-> NoErr]

NoResponse == [kind |-> "none", status |-> 0]

\* The HTTP response of a route handler: its status code and, for a failure,
\* the error whose response body or message is reported as `detail`.
NoAnswer == [statusCode |-> 0, detail |-> NoErr]
Answer(statusCode, detail) == [statusCode |-> statusCode, detail |-> detail]

\* The fields of the body of POST /patients that must be truthy.
RequiredFields == {"fname", "lname", "DOB", "sex"}

\* Request bodies, each given by the required fields it holds a truthy value
\* for.
Bodies == SUBSET RequiredFields

\* One request to a route and its openemrRequest call: the route, the
\* request body (the required fields it holds a truthy value for), the
\* position, the locals token and refreshedToken, the promise it awaits, the
\* Authorization header of its resource call in flight, whether
\* getAccessToken handed it the cached token, how many getAccessToken and
\* resource calls it has made, how its first resource call settled, what
\* openemrRequest returned or threw, and the HTTP response of the handler.
IdleReq ==
  [route |-> "none", body |-> {}, pc |-> "idle", token |-> <<>>,
   refreshedToken |-> <<>>, promise |-> 0, auth |-> <<>>, hit |-> FALSE, acqs |-> 0, calls |-> 0,
   first |-> NoResponse, out |-> NoOut, res |-> NoAnswer]

\* ----------------------------------------------------- module constants
\* requiredEnv throws.
Thrown == [t |-> "throw", s |-> <<>>, n |-> 0]

\* process.env[name]?.trim() is truthy and not the placeholder
Provided(name) ==
  /\ env[name].t = "str"
  /\ Trim(env[name].s) # <<>>
  /\ Trim(env[name].s) # Placeholder

\* Variant: only the first name is looked up.
requiredEnvFirstNameOnly(names) ==
  IF Provided(Head(names)) THEN Str(Trim(env[Head(names)].s)) ELSE Thrown

\* requiredEnv: the trimmed value of the first name that is provided
RECURSIVE requiredEnv(_)
requiredEnv(names) ==
  IF names = <<>> THEN Thrown
  ELSE IF Provided(Head(names)) THEN Str(Trim(env[Head(names)].s))
  ELSE requiredEnv(Tail(names))

Digit == ("0" :> 0) @@ ("5" :> 5)

\* The value of a string of decimal digits.
RECURSIVE Decimal(_)
Decimal(s) ==
  IF s = <<>> THEN 0 ELSE 10 * Decimal(SubSeq(s, 1, Len(s) - 1)) + Digit[s[Len(s)]]

\* Number(raw): NaN for undefined and for what is not numeric, 0 for a blank
\* string.
ToNumber(raw) ==
  IF raw.t # "str" THEN NotANumber
  ELSE IF \A i \in 1..Len(Trim(raw.s)) : Trim(raw.s)[i] \in DOMAIN Digit
    THEN Num(Decimal(Trim(raw.s)))
  ELSE NotANumber

parsePort(raw, fallback) ==
  IF ToNumber(raw).t = "num" /\ ToNumber(raw).n > 0
    THEN ToNumber(raw).n ELSE fallback

\* .replace(/\/+$/, "")
RECURSIVE StripSlashes(_)
StripSlashes(s) ==
  IF s # <<>> /\ s[Len(s)] = "/"
    THEN StripSlashes(SubSeq(s, 1, Len(s) - 1)) ELSE s

\* process.env.X?.trim() || fallback
TrimmedOr(raw, fallback) ==
  IF raw.t = "str" /\ Trim(raw.s) # <<>> THEN Trim(raw.s) ELSE fallback

\* (process.env.USER_ROLE ?? process.env.OPENEMR_USER_ROLE ?? "users").trim()
UserRole ==
  Trim(IF env["USER_ROLE"].t = "str" THEN env["USER_ROLE"].s
       ELSE IF env["OPENEMR_USER_ROLE"].t = "str"
         THEN env["OPENEMR_USER_ROLE"].s
       ELSE <<"users">>)

\* The required constants, in the order the module computes them.
RequiredSettings ==
  <<<<"OPENEMR_BASE">>, <<"CLIENT_ID", "OPENEMR_CLIENT_ID">>,
    <<"CLIENT_SECRET", "OPENEMR_CLIENT_SECRET">>,
    <<"USERNAME", "OPENEMR_USERNAME">>, <<"PASSWORD", "OPENEMR_PASSWORD">>>>

NoConfig == [c \in {} |-> 0]

\* The module constants of lines 29-38 and the timeout of the axios client.
Config ==
  [PORT |-> parsePort(env["PORT"], 4000),
   BASE |-> StripSlashes(requiredEnv(<<"OPENEMR_BASE">>).s),
   CLIENT_ID |-> requiredEnv(<<"CLIENT_ID", "OPENEMR_CLIENT_ID">>).s,
   CLIENT_SECRET |->
     requiredEnv(<<"CLIENT_SECRET", "OPENEMR_CLIENT_SECRET">>).s,
   USERNAME |-> requiredEnv(<<"USERNAME", "OPENEMR_USERNAME">>).s,
   PASSWORD |-> requiredEnv(<<"PASSWORD", "OPENEMR_PASSWORD">>).s,
   USER_ROLE |-> UserRole,
   TOKEN_PATH |->
     TrimmedOr(env["OPENEMR_TOKEN_PATH"], <<"/oauth2/default/token">>),
   TOKEN_SCOPE |->
     TrimmedOr(env["OPENEMR_TOKEN_SCOPE"],
               <<"openid api:oemr user/patient.read user/patient.write">>),
   timeout |-> parsePort(env["OPENEMR_TIMEOUT_MS"], 15000)]

\* Module initialisation: a throw of requiredEnv ends the process, otherwise
\* the constants are set and the server listens.
Booted ==
  IF \E i \in 1..Len(RequiredSettings) :
       requiredEnv(RequiredSettings[i]) = Thrown
    THEN [phase |-> "crashed", config |-> NoConfig]
    ELSE [phase |-> "listening", config |-> Config]

Init ==
  /\ env = CompleteEnv
  /\ boot = Booted
  /\ now = 0
  /\ ticks = 0
  /\ tokenCache = NoCache
  /\ tokenPromise = 0
  /\ fetches = {}
  /\ nFetches = 0
  /\ lastSettled = NoSettle
  /\ cacheMeta = NoMeta
  /\ req = [r \in Requests |-> IdleReq]

\* ------------------------------------------------------------ Token Manager
\* Variant: the comparison with the expiry is not strict.
isCachedTokenValidInclusive ==
  /\ tokenCache.present
  /\ now + refreshBufferMs <= tokenCache.expiresAtMs

\* Variant: the refresh buffer is left out.
isCachedTokenValidNoBuffer ==
  /\ tokenCache.present
  /\ now < tokenCache.expiresAtMs

\* Variant: the expiry is not looked at.
isCachedTokenValidAnyAge == tokenCache.present

isCachedTokenValid ==
  /\ tokenCache.present
  /\ now + refreshBufferMs < tokenCache.expiresAtMs

\* Variant: while a fetch is in flight the cached token is served, stale or
\* not, instead of waiting for the fetch.
ReturnsCachedWhileInFlight(forceRefresh) ==
  \/ ~forceRefresh /\ isCachedTokenValid
  \/ tokenPromise # 0 /\ tokenCache.present

\* Variant: forceRefresh is not looked at.
ReturnsCachedIgnoringForce(forceRefresh) == isCachedTokenValid

\* getAccessToken, line 114: the cached token is returned
ReturnsCached(forceRefresh) == ~forceRefresh /\ isCachedTokenValid

\* Variant: the in-flight marker is not consulted.
NoFetchInFlightUnchecked == TRUE

\* getAccessToken, line 118: if (!tokenPromise)
NoFetchInFlight == tokenPromise = 0

\* Variant: a forced call starts its own fetch whatever is in flight.
StartsFetchWhenForced(forceRefresh) ==
  ~ReturnsCached(forceRefresh) /\ (NoFetchInFlight \/ forceRefresh)

\* getAccessToken, lines 118-122: this call starts fetchTokenFromOpenEMR
StartsFetch(forceRefresh) == ~ReturnsCached(forceRefresh) /\ NoFetchInFlight

\* The fetch whose promise getAccessToken returns (0: the cached token).
PromiseOf(forceRefresh) ==
  IF ReturnsCached(forceRefresh) THEN 0
  ELSE IF StartsFetch(forceRefresh) THEN nFetches + 1
  ELSE tokenPromise

\* The effect of one getAccessToken call on the Token Manager's state.
getAccessToken(forceRefresh) ==
  IF StartsFetch(forceRefresh)
    THEN /\ tokenPromise' = nFetches + 1
         /\ nFetches' = nFetches + 1
         /\ fetches' = fetches \cup
              {[id |-> nFetches + 1, cacheAtStart |-> tokenCache]}
    ELSE UNCHANGED <<tokenPromise, nFetches, fetches>>

\* Variant: the access token is not trimmed.
AccessTokenUntrimmed(access_token) ==
  IF access_token.t = "str" THEN access_token.s ELSE <<>>

\* String(resp.data?.access_token ?? "").trim()
AccessTokenOf(access_token) ==
  Trim(IF access_token.t = "str" THEN access_token.s ELSE <<>>)

\* if (!accessToken) throw
Usable(accessToken) == accessToken # <<>>

\* Variant: zero passes the test for a positive lifetime.
TtlMsZeroAccepted(expires_in) ==
  LET expiresInSeconds ==
        IF expires_in.t = "absent" THEN Num(DefaultExpiresInSeconds)
        ELSE expires_in
  IN IF expiresInSeconds.t = "num" /\ expiresInSeconds.n >= 0
       THEN expiresInSeconds.n * 1000
       ELSE DefaultTtlMs

\* Number(resp.data?.expires_in ?? 300), then the finite-and-positive test
TtlMs(expires_in) ==
  LET expiresInSeconds ==
        IF expires_in.t = "absent" THEN Num(DefaultExpiresInSeconds)
        ELSE expires_in
  IN IF expiresInSeconds.t = "num" /\ expiresInSeconds.n > 0
       THEN expiresInSeconds.n * 1000
       ELSE DefaultTtlMs

\* fetchTokenFromOpenEMR resolves
FetchSucceeds(resp) ==
  resp.kind = "ok" /\ Usable(AccessTokenOf(resp.access_token))

\* The error fetchTokenFromOpenEMR rejects with.
FetchError(i, resp) ==
  IF resp.kind = "ok" THEN Err("payload", 0, "fetch", i)
  ELSE Err(resp.kind, resp.status, "fetch", i)

\* Variant: a failed fetch discards the cached entry.
CacheDroppedOnFailure(resp) ==
  IF FetchSucceeds(resp)
    THEN [present |-> TRUE, accessToken |-> AccessTokenOf(resp.access_token),
          expiresAtMs |-> now + TtlMs(resp.expires_in)]
    ELSE NoCache

\* tokenCache after fetchTokenFromOpenEMR has processed the response
CacheAfterFetch(resp) ==
  IF FetchSucceeds(resp)
    THEN [present |-> TRUE, accessToken |-> AccessTokenOf(resp.access_token),
          expiresAtMs |-> now + TtlMs(resp.expires_in)]
    ELSE tokenCache

\* Variant: the marker is cleared with .then, on success only.
PromiseClearedOnSuccess(ok) == IF ok THEN 0 ELSE tokenPromise

\* .finally(() => { tokenPromise = null })
PromiseAfterSettle(ok) == 0

\* ------------------------------------------------------------ openemrRequest
\* The call is suspended on the promise of fetch i.
Awaits(r, i) ==
  /\ req[r].pc \in {"wait1", "wait2"}
  /\ req[r].promise = i

\* Variant: every error status leads to refresh and retry.
ShouldRefreshOnAnyStatus(res) == res.kind = "status"

\* catch block, lines 143-146: only a 401 leads to refresh and retry
ShouldRefresh(res) == res.kind = "status" /\ res.status = Unauthorized

\* The success status of a route: res.json(data) for GET /patients,
\* res.status(201) for POST /patients.
SuccessCode(route) == IF route = "post" THEN 201 ELSE 200

\* Variant: the catch block answers every failure with 500.
StatusCodeAlways500(err) == 500

\* err?.response?.status ?? 500
StatusCodeOf(err) == IF err.kind = "status" THEN err.status ELSE 500

\* What the route handler answers once openemrRequest has settled.
Respond(route, out) ==
  IF out.st = "ok" THEN Answer(SuccessCode(route), NoErr)
  ELSE Answer(StatusCodeOf(out.err), out.err)

\* openemrRequest has settled: its locals are gone, its caller has `out` and
\* answers the HTTP request.
Settled(q, out) ==
  [q EXCEPT !.pc = "done", !.token = <<>>, !.refreshedToken = <<>>,
            !.promise = 0, !.auth = <<>>, !.hit = FALSE, !.out = out,
            !.res = Respond(q.route, out)]

\* line 132 completes and lines 135-140 issue the first resource call
FirstCall(q, tok) ==
  [q EXCEPT !.pc = "call1", !.token = tok, !.promise = 0, !.auth = tok,
            !.calls = @ + 1]

\* Variant: the retry carries the token of the first call.
RetryCallWithFirstToken(q, tok) ==
  [q EXCEPT !.pc = "call2", !.refreshedToken = tok, !.promise = 0,
            !.auth = q.token, !.calls = @ + 1]

\* Variant: the retry is made by calling openemrRequest again, so that a 401
\* on it leads to a further refresh and retry.
RetryCallRecursive(q, tok) ==
  [q EXCEPT !.pc = "call1", !.token = tok, !.promise = 0, !.auth = tok,
            !.calls = @ + 1]

\* line 149 completes and lines 150-155 issue the retry
RetryCall(q, tok) ==
  [q EXCEPT !.pc = "call2", !.refreshedToken = tok, !.promise = 0,
            !.auth = tok, !.calls = @ + 1]

\* Variant: a rejection of the promise is not delivered to the call.
ResumeOnSuccessOnly(q, ok, tok, err) ==
  IF ~ok THEN q
  ELSE IF q.pc = "wait1" THEN FirstCall(q, tok)
  ELSE RetryCall(q, tok)

\* Variant: when the fetch fails and a token is cached, the call goes on with
\* the cached token.
ResumeWithCachedToken(q, ok, tok, err) ==
  IF ~ok /\ ~tokenCache.present THEN Settled(q, [st |-> "err", err |-> err])
  ELSE IF q.pc = "wait1"
    THEN FirstCall(q, IF ok THEN tok ELSE tokenCache.accessToken)
  ELSE RetryCall(q, IF ok THEN tok ELSE tokenCache.accessToken)

\* Variant: the rejection is swallowed and the call goes on without a token.
ResumeWithoutToken(q, ok, tok, err) ==
  IF q.pc = "wait1" THEN FirstCall(q, tok)
  ELSE RetryCall(q, tok)

\* A call after the promise it awaits has settled.
Resume(q, ok, tok, err) ==
  IF ~ok THEN Settled(q, [st |-> "err", err |-> err])
  ELSE IF q.pc = "wait1" THEN FirstCall(q, tok)
  ELSE RetryCall(q, tok)

\* ----------------------------------------------------------------- actions
Tick(d) ==
  /\ ticks < MaxTicks
  /\ now' = now + d
  /\ ticks' = ticks + 1
  /\ UNCHANGED <<tokenCache, tokenPromise, fetches, nFetches, lastSettled,
                 cacheMeta, req, proc>>

\* Request r is the next to arrive (requests are numbered in that order);
\* the server listens.
Arrives(r) ==
  /\ boot.phase = "listening"
  /\ req[r].pc = "idle"
  /\ \A q \in 1..(r - 1) : req[q].pc # "idle"

\* The handler of `route`, given a request with this body, calls
\* openemrRequest: getAccessToken() and, on a cache hit, the first resource
\* call.
openemrRequest(r, route, body) ==
  /\ getAccessToken(FALSE)
  /\ req' = [req EXCEPT ![r] =
       IF ReturnsCached(FALSE)
         THEN FirstCall([@ EXCEPT !.route = route, !.body = body,
                                  !.acqs = 1, !.hit = TRUE],
                        tokenCache.accessToken)
         ELSE [@ EXCEPT !.route = route, !.body = body, !.pc = "wait1",
                        !.acqs = 1, !.promise = PromiseOf(FALSE)]]
  /\ UNCHANGED <<now, ticks, tokenCache, lastSettled, cacheMeta, proc>>

\* GET /patients
Start(r) ==
  /\ Arrives(r)
  /\ openemrRequest(r, "get", {})

\* Variant: the fields are joined with && instead of ||, so that a body is
\* rejected only when it lacks all of them.
BodyValidAnyField(body) == RequiredFields \cap body # {}

\* if (!fname || !lname || !DOB || !sex) return res.status(400)
BodyValid(body) == RequiredFields \subseteq body

\* POST /patients
PostPatients(r, body) ==
  /\ Arrives(r)
  /\ IF BodyValid(body)
       THEN openemrRequest(r, "post", body)
       ELSE /\ req' = [req EXCEPT ![r] =
                 [@ EXCEPT !.route = "post", !.body = body, !.pc = "done",
                           !.res = Answer(400, NoErr)]]
            /\ UNCHANGED <<now, ticks, tokenCache, tokenPromise, fetches,
                           nFetches, lastSettled, cacheMeta, proc>>

\* The POST to the token endpoint settles: fetchTokenFromOpenEMR finishes,
\* the finally callback runs and every call awaiting the promise resumes.
\* These are promise continuations of one I/O callback: the event loop runs
\* them to the end before it takes up another request or response.
FetchSettle(f, resp) ==
  LET ok == FetchSucceeds(resp)
      tok == IF ok THEN AccessTokenOf(resp.access_token) ELSE <<>>
      err == IF ok THEN NoErr ELSE FetchError(f.id, resp)
  IN /\ f \in fetches
     /\ fetches' = fetches \ {f}
     /\ tokenCache' = CacheAfterFetch(resp)
     /\ cacheMeta' =
          IF ok
            THEN [fetch |-> f.id, storedAt |-> now,
                  expires_in |-> resp.expires_in]
            ELSE cacheMeta
     /\ tokenPromise' = PromiseAfterSettle(ok)
     /\ lastSettled' =
          [id |-> f.id, kind |-> resp.kind,
           access_token |-> resp.access_token]
     /\ req' = [r \in Requests |->
          IF Awaits(r, f.id) THEN Resume(req[r], ok, tok, err) ELSE req[r]]
     /\ UNCHANGED <<now, ticks, nFetches, proc>>

\* The first resource call settles.
Call1Settle(r, res) ==
  /\ req[r].pc = "call1"
  /\ IF res.kind = "ok"
       THEN /\ req' = [req EXCEPT ![r] =
                 Settled([@ EXCEPT !.first = res],
                         [st |-> "ok", err |-> NoErr])]
            /\ UNCHANGED <<tokenPromise, nFetches, fetches>>
       ELSE IF ShouldRefresh(res)
         THEN /\ getAccessToken(TRUE)
              /\ req' = [req EXCEPT ![r] =
                   LET q == [@ EXCEPT !.first = res, !.auth = <<>>,
                                      !.acqs = @ + 1]
                   IN IF ReturnsCached(TRUE)
                        THEN RetryCall([q EXCEPT !.hit = TRUE],
                                       tokenCache.accessToken)
                        ELSE [q EXCEPT !.pc = "wait2", !.hit = FALSE,
                                       !.promise = PromiseOf(TRUE)]]
         ELSE /\ req' = [req EXCEPT ![r] =
                   Settled([@ EXCEPT !.first = res],
                           [st |-> "err",
                            err |-> Err(res.kind, res.status, "call1", r)])]
              /\ UNCHANGED <<tokenPromise, nFetches, fetches>>
  /\ UNCHANGED <<now, ticks, tokenCache, lastSettled, cacheMeta, proc>>

\* The retry settles.
RetrySettle(r, res) ==
  /\ req[r].pc = "call2"
  /\ req' = [req EXCEPT ![r] =
       Settled(@, IF res.kind = "ok"
                    THEN [st |-> "ok", err |-> NoErr]
                    ELSE [st |-> "err",
                          err |-> Err(res.kind, res.status, "call2", r)])]
  /\ UNCHANGED <<now, ticks, tokenCache, tokenPromise, fetches, nFetches,
                 lastSettled, cacheMeta, proc>>

\* The steps of the proxy against servers that answer from the given sets.
Run(tokenResponses, resourceResponses) ==
  \/ \E r \in Requests : Start(r)
  \/ \E f \in fetches : \E resp \in tokenResponses : FetchSettle(f, resp)
  \/ \E r \in Requests : \E res \in resourceResponses : Call1Settle(r, res)
  \/ \E r \in Requests : \E res \in resourceResponses : RetrySettle(r, res)

Next == Run(TokenResponses, ResourceResponses)

\* All events at one clock reading.
Spec == Init /\ [][Next]_vars

\* For the progress properties the authorization server issues one token
\* value, with an explicit lifetime.
FairTokenResponses ==
  {resp \in TokenResponses :
     resp.kind = "ok" =>
       /\ resp.access_token \notin {Str(<<" ", "b", " ">>)}
       /\ resp.expires_in \in {Num(1), Num(300)}}

FairNext == Run(FairTokenResponses, ResourceResponses)

\* Every outbound request is bounded by the axios timeout, so it settles.
FairSpec ==
  /\ Init /\ [][FairNext]_vars
  /\ WF_vars(\E f \in fetches : \E resp \in FairTokenResponses :
               FetchSettle(f, resp))
  /\ WF_vars(\E r \in Requests : \E res \in ResourceResponses :
               Call1Settle(r, res))
  /\ WF_vars(\E r \in Requests : \E res \in ResourceResponses :
               RetrySettle(r, res))

\* With the clock running, the authorization server answers with a usable
\* token and an explicit lifetime or not at all, and the resource server
\* accepts the token or rejects it.
ClockTokenResponses ==
  {resp \in TokenResponses :
     \/ resp.kind = "noresponse"
     \/ /\ resp.kind = "ok"
        /\ resp.access_token \in {Str(<<"a">>), Str(<<" ", "b", " ">>)}
        /\ resp.expires_in \in {Num(1), Num(300)}}

ClockResourceResponses ==
  {res \in ResourceResponses : res.kind = "ok" \/ res.status = Unauthorized}

ClockNext ==
  \/ Run(ClockTokenResponses, ClockResourceResponses)
  \/ \E d \in TickSteps : Tick(d)

\* The clock advances between events.
ClockSpec == Init /\ [][ClockNext]_vars

\* For the lifetime of the cache entry the authorization server answers with
\* a usable token and every kind of expires_in: absent, not a number,
\* negative, zero and positive.
LifetimePayloads ==
  {Absent, NotANumber, Num(-5), Num(0), Num(60), Num(300)}

LifetimeTokenResponses ==
  [kind : {"ok"}, status : {200},
   access_token : {Str(<<"a">>), Str(<<" ", "b", " ">>)},
   expires_in : LifetimePayloads]

LifetimeNext ==
  \/ Run(LifetimeTokenResponses, ClockResourceResponses)
  \/ \E d \in {1} : Tick(d)

LifetimeSpec == Init /\ [][LifetimeNext]_vars

\* Both routes, against an authorization server that issues one token value.
HttpTokenResponses ==
  {resp \in TokenResponses :
     resp.kind = "ok" =>
       /\ resp.access_token \in {Absent, Str(<<"a">>)}
       /\ resp.expires_in = Num(300)}

HttpNext ==
  \/ Run(HttpTokenResponses, ResourceResponses)
  \/ \E r \in Requests : \E body \in Bodies : PostPatients(r, body)

HttpSpec == Init /\ [][HttpNext]_vars

\* Startup from each of the environments, against an authorization server
\* that always issues a token and a resource server that accepts or rejects
\* it.
Loading == [phase |-> "loading", config |-> NoConfig]

\* The module body runs: lines 29-58 and app.listen.
Load ==
  /\ boot = Loading
  /\ boot' = Booted
  /\ UNCHANGED <<env, now, ticks, tokenCache, tokenPromise, fetches, nFetches,
                 lastSettled, cacheMeta, req>>

StartupInit ==
  /\ env \in Envs
  /\ boot = Loading
  /\ now = 0
  /\ ticks = 0
  /\ tokenCache = NoCache
  /\ tokenPromise = 0
  /\ fetches = {}
  /\ nFetches = 0
  /\ lastSettled = NoSettle
  /\ cacheMeta = NoMeta
  /\ req = [r \in Requests |-> IdleReq]

StartupTokenResponses ==
  {resp \in TokenResponses :
     /\ resp.kind = "ok"
     /\ resp.access_token = Str(<<"a">>)
     /\ resp.expires_in = Num(300)}

StartupNext ==
  \/ Load
  \/ Run(StartupTokenResponses, ClockResourceResponses)

StartupSpec == StartupInit /\ [][StartupNext]_vars

\* ================================================================== claims
Waiting(r) == req[r].pc \in {"wait1", "wait2"}

\* Request r makes its non-forced getAccessToken call in this step.
CallsGet(r) == req[r].pc = "idle" /\ req'[r].pc # "idle"

\* Request r makes its forced getAccessToken call in this step.
CallsGetForced(r) == req[r].pc = "call1" /\ req'[r].acqs = 2

\* A token fetch settles in this step.
SettlesIn(f) == f \in fetches /\ f \notin fetches'

\* C1: at most one token fetch is in flight in every reachable state, it is
\* the one tokenPromise refers to, and every call that needed a fetch while
\* tokenPromise was set awaits that fetch: no second authorization request.
C1_SingleFlight ==
  /\ Cardinality(fetches) <= 1
  /\ \A f \in fetches : tokenPromise = f.id
  /\ \A r \in Requests :
       Waiting(r) => req[r].promise = tokenPromise /\ tokenPromise # 0

\* C1 witness: two calls await one in-flight fetch, one of them a forced
\* refresh.
C1_Witness ==
  \E r1, r2 \in Requests :
    /\ req[r1].pc = "wait1" /\ req[r2].pc = "wait2"
    /\ req[r1].promise = req[r2].promise
    /\ Cardinality(fetches) = 1

\* C2: calls that are waiting for a token at the same time (issued with no
\* valid cached token, before the fetch settles) share one authorization
\* request, resolve in the same step and resolve to the same token value or
\* the same failure.
C2_OneRequestSameToken ==
  [][\A r1, r2 \in Requests :
       (Waiting(r1) /\ Waiting(r2)) =>
         /\ req[r1].promise = req[r2].promise
         /\ \E f \in fetches : f.id = req[r1].promise
         /\ ~Waiting(r1)' =>
              /\ ~Waiting(r2)'
              /\ nFetches' = nFetches
              /\ req'[r1].auth = req'[r2].auth
              /\ req'[r1].out = req'[r2].out
              /\ (req'[r1].pc = "done") = (req'[r2].pc = "done")]_vars

\* C2 witness: two calls issued while no token was cached hold the same
\* freshly fetched token after a single authorization request.
C2_Witness ==
  \E r1, r2 \in Requests :
    /\ r1 # r2
    /\ req[r1].pc = "call1" /\ req[r2].pc = "call1"
    /\ ~req[r1].hit /\ ~req[r2].hit
    /\ nFetches = 1
    /\ req[r1].auth = req[r2].auth /\ req[r1].auth # <<>>

\* C3 as stated: every call that requests a token, forced or not, while a
\* fetch is in flight waits for that fetch; none is given the cached token.
C3_AsStated ==
  [][\A r \in Requests :
       (CallsGet(r) /\ fetches # {}) =>
         /\ req'[r].pc = "wait1"
         /\ req'[r].promise = tokenPromise]_vars

\* C3 amended: every call that needs a fetch (forced, or the cached token is
\* not valid) while a fetch is in flight awaits that fetch, starts no other,
\* and receives its result, the value it stored or its error; a non-forced
\* call whose cached token is still valid is given the cached token.
C3_JoinersSeeTheFetch ==
  [][/\ \A r \in Requests :
          /\ (CallsGetForced(r) /\ fetches # {}) =>
               /\ req'[r].pc = "wait2"
               /\ req'[r].promise = tokenPromise
               /\ nFetches' = nFetches
          /\ (CallsGet(r) /\ fetches # {}) =>
               IF tokenCache.present
                  /\ tokenCache.expiresAtMs - now > refreshBufferMs
                 THEN /\ req'[r].pc = "call1"
                      /\ req'[r].auth = tokenCache.accessToken
                 ELSE /\ req'[r].pc = "wait1"
                      /\ req'[r].promise = tokenPromise
                      /\ nFetches' = nFetches
     /\ \A f \in fetches : \A r \in Requests :
          (SettlesIn(f) /\ Waiting(r) /\ req[r].promise = f.id) =>
            \/ /\ req'[r].pc \in {"call1", "call2"}
               /\ cacheMeta'.fetch = f.id
               /\ req'[r].auth = tokenCache'.accessToken
            \/ /\ req'[r].pc = "done"
               /\ req'[r].out.st = "err"
               /\ req'[r].out.err.at = "fetch"
               /\ req'[r].out.err.id = f.id
               /\ tokenCache' = tokenCache]_vars

\* C3 witness: a forced refresh is in flight, one call holds the cached
\* token it was given meanwhile.
C3_Witness ==
  \E r1, r2 \in Requests :
    /\ req[r1].pc = "wait2"
    /\ req[r2].pc = "call1" /\ req[r2].hit
    /\ \E f \in fetches : f.id = req[r1].promise /\ f.cacheAtStart = tokenCache
    /\ req[r2].auth = tokenCache.accessToken

\* Request r awaits a fetch that is in flight in the next state.
AwaitsFetch(r) ==
  /\ Waiting(r)'
  /\ ~req'[r].hit
  /\ \E f \in fetches' : f.id = req'[r].promise

\* The cache entry outlives now by more than the refresh buffer.
FreshEntry ==
  tokenCache.present /\ tokenCache.expiresAtMs - now > refreshBufferMs

\* C4: getAccessToken(false) returns the cached token, with no authorization
\* request and no change of tokenCache or tokenPromise, exactly when an entry
\* exists whose expiry minus now exceeds the 10-second buffer; otherwise, and
\* on every forced call, the call awaits a fetch and the value it gets is the
\* one that fetch stored.
C4_CacheHitExactlyWhenFresh ==
  [][\A r \in Requests :
       /\ CallsGet(r) =>
            IF FreshEntry
              THEN /\ req'[r].pc = "call1" /\ req'[r].hit
                   /\ req'[r].token = tokenCache.accessToken
                   /\ req'[r].auth = tokenCache.accessToken
                   /\ nFetches' = nFetches /\ fetches' = fetches
                   /\ tokenCache' = tokenCache
                   /\ tokenPromise' = tokenPromise
              ELSE AwaitsFetch(r)
       /\ CallsGetForced(r) => AwaitsFetch(r)
       /\ \A f \in fetches :
            (SettlesIn(f) /\ Waiting(r) /\ req[r].promise = f.id
               /\ req'[r].pc # "done") =>
              /\ cacheMeta'.fetch = f.id
              /\ req'[r].auth = tokenCache'.accessToken
              /\ ~req'[r].hit]_vars

\* C4 witness: a call holds the cached token it was given one millisecond
\* before the entry reached the refresh buffer.
C4_Witness ==
  \E r \in Requests :
    /\ req[r].pc = "call1" /\ req[r].hit
    /\ tokenCache.expiresAtMs - now = refreshBufferMs + 1
    /\ req[r].auth = tokenCache.accessToken

\* Milliseconds for which a token of expires_in = 300 is outside the buffer.
Window300 == 300 * 1000 - refreshBufferMs

\* The cache holds a token stored from a response with this expires_in.
StoredWith(seconds) ==
  tokenCache.present /\ cacheMeta.expires_in = Num(seconds)

\* C5 as stated: a token stored with expires_in = 300 is returned from the
\* cache by calls made up to and including (300 - buffer) seconds after it
\* was stored, and refetched by calls made after that.
C5_AsStated ==
  [][\A r \in Requests :
       (CallsGet(r) /\ StoredWith(300)) =>
         IF now - cacheMeta.storedAt <= Window300
           THEN req'[r].pc = "call1" /\ req'[r].auth = tokenCache.accessToken
           ELSE AwaitsFetch(r)]_vars

\* C5 amended: a token stored with expires_in = 300 is returned from the
\* cache by getAccessToken(false) calls made less than (300 - buffer) seconds
\* after it was stored; calls made (300 - buffer) seconds after it was stored
\* or later do not reuse it but await a fetch.
C5_ValidBeforeWindowEnds ==
  [][\A r \in Requests :
       (CallsGet(r) /\ StoredWith(300)) =>
         IF now - cacheMeta.storedAt < Window300
           THEN /\ req'[r].pc = "call1" /\ req'[r].hit
                /\ req'[r].auth = tokenCache.accessToken
                /\ nFetches' = nFetches
           ELSE /\ AwaitsFetch(r)
                /\ fetches = {} => nFetches' = nFetches + 1]_vars

\* C5 witness: a call made exactly (300 - buffer) seconds after the token was
\* stored awaits the new fetch it started.
C5_Witness ==
  \E r \in Requests :
    /\ req[r].pc = "wait1"
    /\ StoredWith(300)
    /\ now - cacheMeta.storedAt = Window300
    /\ \E f \in fetches : f.id = req[r].promise /\ f.id > cacheMeta.fetch

\* C6: with a token stored from expires_in = 1, a getAccessToken call made
\* once the buffer window has elapsed is not served from the cache: it awaits
\* a fetch newer than the one that stored the token, started by this call
\* when none is in flight.
C6_ShortLivedTokenRefetched ==
  [][\A r \in Requests :
       ((CallsGet(r) \/ CallsGetForced(r)) /\ StoredWith(1)
          /\ now - cacheMeta.storedAt >= refreshBufferMs) =>
         /\ AwaitsFetch(r)
         /\ req'[r].promise > cacheMeta.fetch
         /\ fetches = {} => nFetches' = nFetches + 1]_vars

\* C6 witness: after the buffer window a call awaits a new fetch while the
\* token from expires_in = 1 is still in the cache.
C6_Witness ==
  \E r \in Requests :
    /\ req[r].pc = "wait1"
    /\ StoredWith(1)
    /\ now - cacheMeta.storedAt >= refreshBufferMs
    /\ \E f \in fetches :
         f.id = req[r].promise /\ f.cacheAtStart = tokenCache

\* The first resource call of r was answered with 401.
First401(r) == req[r].first.kind = "status" /\ req[r].first.status = 401

\* C7 as stated: a call whose first resource call got a 401 performs exactly
\* one forced refresh and exactly one retry, and when the retry fails its
\* caller observes the retry's failure.
C7_AsStated ==
  \A r \in Requests :
    (req[r].pc = "done" /\ First401(r)) =>
      /\ req[r].acqs = 2
      /\ req[r].calls = 2
      /\ req[r].out.st = "err" => req[r].out.err.at = "call2"

\* C7 amended: a call whose first resource call got a 401 performs exactly
\* one forced refresh; when that refresh succeeds it makes exactly one retry,
\* with the refreshed token, and if the retry fails, with any status, nothing
\* more is tried and the caller observes the retry's failure, not the first
\* 401; when the refresh fails there is no retry and the caller observes the
\* failure of the token fetch.
C7_OneRefreshOneRetry ==
  \A r \in Requests :
    First401(r) =>
      /\ req[r].acqs = 2
      /\ req[r].pc \in {"wait2", "call2", "done"}
      /\ req[r].pc = "wait2" => req[r].calls = 1
      /\ req[r].pc = "call2" =>
           /\ req[r].calls = 2
           /\ req[r].auth = req[r].refreshedToken
           /\ req[r].auth # <<>>
      /\ req[r].pc = "done" =>
           \/ /\ req[r].calls = 2
              /\ \/ req[r].out.st = "ok"
                 \/ req[r].out.st = "err" /\ req[r].out.err.at = "call2"
           \/ /\ req[r].calls = 1
              /\ req[r].out.st = "err"
              /\ req[r].out.err.at = "fetch"

\* C7 witness: after a 401, one refresh and one retry, the caller observes
\* the 401 of the retry.
C7_Witness ==
  \E r \in Requests :
    /\ req[r].pc = "done" /\ First401(r)
    /\ req[r].acqs = 2 /\ req[r].calls = 2
    /\ req[r].out.err = Err("status", 401, "call2", r)

\* The first resource call of r failed, and not with a 401.
FirstFailedOtherwise(r) ==
  /\ req[r].first.kind \in {"status", "noresponse"}
  /\ ~(req[r].first.kind = "status" /\ req[r].first.status = 401)

\* C8: when the first resource call fails with anything but a 401 (an error
\* status, a timeout or network failure without status), the call makes no
\* token refresh and no second resource call, leaves tokenCache and
\* tokenPromise unchanged, and its caller observes that error.
C8_OtherFailuresPropagate ==
  [][\A r \in Requests :
       (req[r].pc = "call1" /\ FirstFailedOtherwise(r)') =>
         /\ req'[r].pc = "done"
         /\ req'[r].acqs = 1 /\ req'[r].calls = 1
         /\ req'[r].out =
              [st |-> "err",
               err |-> Err(req'[r].first.kind, req'[r].first.status,
                           "call1", r)]
         /\ tokenCache' = tokenCache
         /\ tokenPromise' = tokenPromise
         /\ nFetches' = nFetches
         /\ fetches' = fetches]_vars

\* C8 witness: a call has ended with the 500 of its first resource call while
\* another call's token fetch is in flight.
C8_Witness ==
  \E r \in Requests :
    /\ req[r].pc = "done"
    /\ req[r].first = [kind |-> "status", status |-> 500]
    /\ req[r].out.err = Err("status", 500, "call1", r)
    /\ tokenPromise # 0

\* The access_token field is missing, empty or only whitespace.
Blank(access_token) ==
  \/ access_token.t = "absent"
  \/ /\ access_token.t = "str"
     /\ \A i \in 1..Len(access_token.s) : access_token.s[i] \in Whitespace

\* The settlement recorded last was a response without a usable token.
BlankSettled(s) == s.kind = "ok" /\ Blank(s.access_token)

\* C9: a token response whose access_token is missing, empty or only
\* whitespace makes the fetch fail for every call awaiting it, and tokenCache
\* is not written: it holds the value it held when the fetch started.
C9_BlankTokenRejected ==
  [][\A f \in fetches :
       (SettlesIn(f) /\ lastSettled'.id = f.id /\ BlankSettled(lastSettled'))
       => /\ tokenCache' = f.cacheAtStart
          /\ tokenCache' = tokenCache
          /\ cacheMeta' = cacheMeta
          /\ \A r \in Requests :
               (Waiting(r) /\ req[r].promise = f.id) =>
                 /\ req'[r].pc = "done"
                 /\ req'[r].out =
                      [st |-> "err", err |-> Err("payload", 0, "fetch", f.id)]
    ]_vars

\* C9 witness: a forced refresh was answered with a whitespace-only
\* access_token; the call has failed and the earlier token is still cached.
C9_Witness ==
  \E r \in Requests :
    /\ lastSettled.kind = "ok"
    /\ lastSettled.access_token = Str(<<" ">>)
    /\ req[r].pc = "done" /\ req[r].acqs = 2
    /\ req[r].out.err = Err("payload", 0, "fetch", lastSettled.id)
    /\ tokenCache.present
    /\ cacheMeta.fetch < lastSettled.id

\* The fetch that settled last failed.
LastFetchFailed ==
  lastSettled.kind \in {"status", "noresponse"} \/ BlankSettled(lastSettled)

\* C10: tokenPromise is cleared whenever a fetch settles, on success and on
\* every kind of failure; every set marker is eventually followed by a state
\* with tokenPromise = null; and the next getAccessToken call that needs a
\* fetch after a failed one starts a new authorization request and waits for
\* it instead of receiving the old failure.
C10_MarkerCleared ==
  /\ [][\A f \in fetches : SettlesIn(f) => tokenPromise' = 0]_vars
  /\ (tokenPromise # 0) ~> (tokenPromise = 0)
  /\ [][\A r \in Requests :
          (/\ (CallsGet(r) /\ ~FreshEntry) \/ CallsGetForced(r)
           /\ LastFetchFailed /\ fetches = {}) =>
            /\ nFetches' = nFetches + 1
            /\ tokenPromise' = nFetches'
            /\ req'[r].promise = nFetches'
            /\ AwaitsFetch(r)]_vars

\* C10 witness: after a fetch that failed, a call awaits a newer fetch.
C10_Witness ==
  \E r \in Requests :
    /\ LastFetchFailed
    /\ Waiting(r)
    /\ req[r].promise = tokenPromise
    /\ tokenPromise > lastSettled.id

\* The kind of the error a failed fetch rejects with, from its settlement.
RejectionKind(s) == IF s.kind = "ok" THEN "payload" ELSE s.kind

\* C11: when a fetch fails (error status, timeout or network failure, or a
\* response without a usable token), every call waiting on that fetch ends
\* with that failure, and the Token Manager does not retry: the step starts no
\* authorization request, leaves none in flight and clears the marker, so the
\* failed fetch was exactly one authorization request.
C11_FailurePropagatesNoRetry ==
  [][\A f \in fetches :
       (SettlesIn(f) /\ LastFetchFailed') =>
         /\ lastSettled'.id = f.id
         /\ \A r \in Requests :
              (Waiting(r) /\ req[r].promise = f.id) =>
                /\ req'[r].pc = "done"
                /\ req'[r].out.st = "err"
                /\ req'[r].out.err.kind = RejectionKind(lastSettled')
                /\ req'[r].out.err.at = "fetch"
                /\ req'[r].out.err.id = f.id
         /\ nFetches' = nFetches
         /\ fetches' = {}
         /\ tokenPromise' = 0
         /\ f.id <= nFetches]_vars

\* C11 witness: two calls, one of them in its forced refresh, have ended with
\* the failure of the one fetch both awaited.
C11_Witness ==
  \E r1, r2 \in Requests :
    /\ r1 # r2
    /\ req[r1].pc = "done" /\ req[r2].pc = "done"
    /\ req[r1].acqs = 1 /\ req[r2].acqs = 2
    /\ req[r1].out.err = Err("noresponse", 0, "fetch", lastSettled.id)
    /\ req[r2].out.err = req[r1].out.err
    /\ fetches = {} /\ tokenPromise = 0

\* C12: whenever a call that needs a fetch (a forced refresh, or no valid
\* cached token) awaits a fetch that fails while tokenCache holds an earlier
\* token, the call fails with the fetch's error: it is not given the cached
\* token and issues no resource call with it.
C12_NoStaleSubstitution ==
  [][\A f \in fetches : \A r \in Requests :
       (/\ SettlesIn(f) /\ LastFetchFailed'
        /\ Waiting(r) /\ req[r].promise = f.id
        /\ tokenCache.present) =>
         /\ req'[r].pc = "done"
         /\ req'[r].out.st = "err"
         /\ req'[r].out.err.at = "fetch"
         /\ req'[r].calls = req[r].calls
         /\ req'[r].auth = <<>>
         /\ tokenCache' = tokenCache]_vars

\* C12 witness: a call that found the cached token not valid has failed with
\* the error of its fetch, without a resource call, while the earlier token is
\* still cached.
C12_Witness ==
  \E r \in Requests :
    /\ req[r].pc = "done" /\ req[r].acqs = 1 /\ req[r].calls = 0
    /\ req[r].out.st = "err" /\ req[r].out.err.at = "fetch"
    /\ tokenCache.present
    /\ cacheMeta.fetch < req[r].out.err.id

\* The lifetime in milliseconds the cache entry is to get for an expires_in.
LifetimeMs(expires_in) ==
  CASE expires_in.t = "num" /\ expires_in.n > 0 -> expires_in.n * 1000
    [] OTHER -> 300 * 1000

\* C13: a fetch that succeeds replaces the cache entry as a whole: the entry
\* afterwards is exactly the new access token with expiry = the time the
\* response is processed + ttl, where ttl is expires_in seconds when that is a
\* positive number and 300 seconds when it is absent, zero, negative or not a
\* number.
C13_EntryReplacedWithTtl ==
  [][\A f \in fetches :
       (SettlesIn(f) /\ lastSettled'.kind = "ok"
          /\ ~Blank(lastSettled'.access_token)) =>
         /\ cacheMeta'.fetch = f.id
         /\ cacheMeta'.storedAt = now
         /\ tokenCache' =
              [present |-> TRUE,
               accessToken |->
                 SelectSeq(lastSettled'.access_token.s,
                           LAMBDA c : c \notin Whitespace),
               expiresAtMs |-> now + LifetimeMs(cacheMeta'.expires_in)]]_vars

\* C13 witness: an entry stored from expires_in = 60 has been replaced, at a
\* later time, by another token from a response with expires_in = 0, and
\* expires 300 seconds after that time.
C13_Witness ==
  /\ tokenCache.present
  /\ cacheMeta.expires_in = Num(0)
  /\ cacheMeta.storedAt > 0
  /\ cacheMeta.fetch > 1
  /\ tokenCache.expiresAtMs = cacheMeta.storedAt + 300000
  /\ \E r \in Requests :
       /\ req[r].pc = "call2"
       /\ req[r].token # req[r].refreshedToken
       /\ req[r].refreshedToken = tokenCache.accessToken

\* A resource call of r settles in this step.
ResourceCallSettles(r) ==
  req[r].pc \in {"call1", "call2"} /\ req'[r] # req[r]

\* C14: tokenCache changes only in a step that completes a successful fetch,
\* and then to an entry with the token and the expiry of that fetch; a
\* getAccessToken call (cache hit or not), a failed fetch, and a resource call
\* that settles, with a 401 or otherwise, leave it unchanged; once it holds
\* an entry it is never empty again.
C14_CacheFrame ==
  [][/\ tokenCache' # tokenCache =>
          \E f \in fetches :
            /\ SettlesIn(f)
            /\ lastSettled'.id = f.id
            /\ lastSettled'.kind = "ok" /\ ~Blank(lastSettled'.access_token)
            /\ tokenCache'.present
            /\ tokenCache'.accessToken # <<>>
            /\ cacheMeta'.fetch = f.id /\ cacheMeta'.storedAt = now
     /\ tokenCache.present => tokenCache'.present
     /\ \A r \in Requests :
          (CallsGet(r) \/ CallsGetForced(r) \/ ResourceCallSettles(r)) =>
            tokenCache' = tokenCache
     /\ \A f \in fetches :
          (SettlesIn(f) /\ LastFetchFailed') => tokenCache' = tokenCache
    ]_vars

\* C14 witness: the entry written by the first fetch is still cached after a
\* call got a 401 and its forced refresh failed.
C14_Witness ==
  \E r \in Requests :
    /\ req[r].pc = "done" /\ First401(r)
    /\ req[r].out.st = "err" /\ req[r].out.err.at = "fetch"
    /\ LastFetchFailed /\ lastSettled.id = req[r].out.err.id
    /\ tokenCache.present
    /\ cacheMeta.fetch = 1 /\ lastSettled.id > 1

\* C15: when openemrRequest ends with the failure of a resource call (a
\* non-success status or no response on the first call, or any failure of
\* the retry after the forced refresh), the error the route handler catches
\* is the one of that resource call of this request, and the HTTP response
\* carries that error as detail and its status code, or 500 when the error
\* has no status.
C15_StatusMapping ==
  \A r \in Requests :
    (/\ req[r].pc = "done" /\ req[r].out.st = "err"
     /\ req[r].out.err.at \in {"call1", "call2"}) =>
      /\ req[r].out.err.id = r
      /\ req[r].out.err.at = "call1" =>
           /\ req[r].calls = 1
           /\ req[r].out.err.kind = req[r].first.kind
           /\ req[r].out.err.status = req[r].first.status
           /\ req[r].out.err.status # 401
      /\ req[r].out.err.at = "call2" => req[r].calls = 2 /\ First401(r)
      /\ req[r].res.detail = req[r].out.err
      /\ req[r].res.statusCode =
           CASE req[r].out.err.kind = "status" -> req[r].out.err.status
             [] OTHER -> 500

\* C15 witness: a POST whose retry was answered with 500 is answered with
\* 500, and a GET whose first resource call got no response is answered with
\* 500 as well.
C15_Witness ==
  \E r1, r2 \in Requests :
    /\ req[r1].route = "post" /\ req[r1].pc = "done"
    /\ req[r1].out.err = Err("status", 500, "call2", r1)
    /\ req[r1].res.statusCode = 500
    /\ req[r2].route = "get" /\ req[r2].pc = "done"
    /\ req[r2].out.err = Err("noresponse", 0, "call1", r2)
    /\ req[r2].res.statusCode = 500

\* No variable of the setting is set.
Unset(setting) == \A name \in NamesOf(setting) : env[name] = Absent

\* The variable is unset, empty, blank or left at the placeholder.
Lacking(name) ==
  env[name] \in {Absent, Str(<<>>), Str(<<" ">>), Str(<<"replace_me">>)}

\* No token was fetched and no request was handled.
NothingHandled ==
  /\ nFetches = 0 /\ fetches = {} /\ tokenPromise = 0
  /\ tokenCache = NoCache
  /\ \A r \in Requests : req[r] = IdleReq

\* C16 as stated: when base URL, token-endpoint path, client id or secret,
\* resource-owner username or password, role, scope string or request timeout
\* is absent from the environment, startup ends in a fatal error.
C16_AsStated ==
  (/\ boot.phase # "loading"
   /\ \E setting \in Settings \ {<<"PORT">>} : Unset(setting)) =>
    boot.phase = "crashed"

\* C16 amended: base URL, client id, client secret, resource-owner username
\* and password are required: startup ends in a fatal error exactly when one
\* of them is lacking (unset, blank or the placeholder) under every name it
\* is read from, and until the server listens no token is fetched and no
\* request handled.  Role, token-endpoint path, scope string and request
\* timeout are not required: when they are absent the server starts with the
\* defaults "users", "/oauth2/default/token", the default scope and 15000 ms.
C16_RequiredConfig ==
  /\ boot.phase # "listening" => NothingHandled
  /\ boot.phase # "loading" =>
       /\ boot.phase = "crashed" <=>
            \E setting \in
                {<<"OPENEMR_BASE">>, <<"CLIENT_ID", "OPENEMR_CLIENT_ID">>,
                 <<"CLIENT_SECRET", "OPENEMR_CLIENT_SECRET">>,
                 <<"USERNAME", "OPENEMR_USERNAME">>,
                 <<"PASSWORD", "OPENEMR_PASSWORD">>} :
              \A name \in NamesOf(setting) : Lacking(name)
       /\ boot.phase = "listening" =>
            /\ Unset(<<"USER_ROLE", "OPENEMR_USER_ROLE">>) =>
                 boot.config.USER_ROLE = <<"users">>
            /\ Unset(<<"OPENEMR_TOKEN_PATH">>) =>
                 boot.config.TOKEN_PATH = <<"/oauth2/default/token">>
            /\ Unset(<<"OPENEMR_TOKEN_SCOPE">>) =>
                 boot.config.TOKEN_SCOPE =
                   <<"openid api:oemr user/patient.read user/patient.write">>
            /\ Unset(<<"OPENEMR_TIMEOUT_MS">>) =>
                 boot.config.timeout = 15000
            /\ boot.config.BASE # <<>>
            /\ boot.config.CLIENT_ID # <<>>
            /\ boot.config.CLIENT_SECRET # <<>>
            /\ boot.config.USERNAME # <<>>
            /\ boot.config.PASSWORD # <<>>

\* C16 witness: startup has ended in the fatal error with PASSWORD unset and
\* OPENEMR_PASSWORD left at the placeholder.
C16_Witness ==
  /\ boot.phase = "crashed"
  /\ env["PASSWORD"] = Absent
  /\ env["OPENEMR_PASSWORD"] = Str(Placeholder)
  /\ NothingHandled

\* C17: provided every outbound request settles, every openemrRequest call
\* that was started ends, with a response body or an error; it makes at most
\* two resource calls and at most two token acquisitions, the second of each
\* only after a 401 on the first resource call, and the second resource call
\* only with the token of a forced refresh that succeeded.
C17_Terminates ==
  /\ [](\A r \in Requests :
          /\ req[r].calls <= 2 /\ req[r].acqs <= 2
          /\ req[r].calls <= req[r].acqs
          /\ req[r].acqs = 2 => First401(r)
          /\ req[r].calls = 2 => First401(r) /\ req[r].acqs = 2
          /\ req[r].pc = "call2" =>
               /\ req[r].calls = 2
               /\ req[r].refreshedToken # <<>>
               /\ req[r].auth = req[r].refreshedToken
               /\ ~req[r].hit
          /\ req[r].pc = "done" => req[r].out.st \in {"ok", "err"})
  /\ \A r \in Requests : (req[r].pc # "idle") ~> (req[r].pc = "done")

\* C17 witness: a call has ended with a response body after two token
\* acquisitions and two resource calls.
C17_Witness ==
  \E r \in Requests :
    /\ req[r].pc = "done" /\ req[r].out.st = "ok"
    /\ req[r].acqs = 2 /\ req[r].calls = 2
    /\ First401(r)

\* The fetch that settled last succeeded.
LastFetchSucceeded ==
  lastSettled.kind = "ok" /\ ~Blank(lastSettled.access_token)

\* The access token a response carries, without the surrounding whitespace.
Carried(access_token) ==
  SelectSeq(access_token.s, LAMBDA c : c \notin Whitespace)

\* C18: fetches never overlap and settle in the order they were started, so
\* cache writes happen in that order: a fetch that settles is newer than the
\* one that wrote the cache and than every fetch settled before; a successful
\* one writes its own token; and whenever tokenCache holds an entry, its token
\* is the one of the most recently completed successful fetch, which every
\* fetch in flight is newer than.
C18_WritesInFetchOrder ==
  /\ [](/\ Cardinality(fetches) <= 1
        /\ \A f \in fetches : f.id > cacheMeta.fetch /\ f.id > lastSettled.id
        /\ tokenCache.present <=> cacheMeta.fetch >= 1
        /\ LastFetchSucceeded =>
             /\ tokenCache.present
             /\ cacheMeta.fetch = lastSettled.id
             /\ tokenCache.accessToken = Carried(lastSettled.access_token)
        /\ (tokenCache.present /\ ~LastFetchSucceeded) =>
             cacheMeta.fetch < lastSettled.id)
  /\ [][/\ cacheMeta'.fetch >= cacheMeta.fetch
        /\ cacheMeta'.fetch = cacheMeta.fetch => tokenCache' = tokenCache
        /\ \A f \in fetches :
             SettlesIn(f) =>
               /\ lastSettled'.id = f.id
               /\ f.id > cacheMeta.fetch /\ f.id > lastSettled.id
               /\ LastFetchSucceeded' =>
                    /\ cacheMeta'.fetch = f.id
                    /\ tokenCache'.accessToken =
                         Carried(lastSettled'.access_token)
               /\ ~LastFetchSucceeded' => cacheMeta' = cacheMeta]_vars

\* C18 witness: the cache holds the token of the second fetch, which differs
\* from the token the first fetch had stored, and a third fetch has failed
\* since.
C18_Witness ==
  /\ tokenCache.present
  /\ cacheMeta.fetch = 2
  /\ lastSettled.id = 3 /\ LastFetchFailed
  /\ \E r \in Requests :
       /\ req[r].pc = "call2"
       /\ req[r].token # req[r].refreshedToken
       /\ req[r].refreshedToken = tokenCache.accessToken

\* The retry of r is sent in this step.
SendsRetry(r) == req[r].pc # "call2" /\ req'[r].pc = "call2"

\* C19: after a 401 the forced getAccessToken call never returns the cached
\* token, not even when the entry is still valid by its expiry: the call
\* awaits a fetch, in flight already or started by it; and the retry is sent
\* only in the step in which that fetch settles with success, carrying the
\* token of that settlement.
C19_RetryTokenIsFetched ==
  [][\A r \in Requests :
       /\ CallsGetForced(r) =>
            /\ req'[r].pc = "wait2"
            /\ ~req'[r].hit
            /\ \E f \in fetches' : f.id = req'[r].promise
            /\ fetches # {} => fetches' = fetches
       /\ SendsRetry(r) =>
            /\ req[r].pc = "wait2" /\ First401(r)
            /\ \E f \in fetches :
                 /\ SettlesIn(f) /\ f.id = req[r].promise
                 /\ lastSettled'.id = f.id
            /\ LastFetchSucceeded'
            /\ req'[r].auth = Carried(lastSettled'.access_token)
            /\ req'[r].refreshedToken = req'[r].auth
            /\ ~req'[r].hit]_vars

\* C19 witness: a retry carries the token of the fetch that settled last,
\* which differs from the token of the first call, while another call holds
\* that first token from a cache hit at the same clock reading.
C19_Witness ==
  \E r1, r2 \in Requests :
    /\ req[r1].pc = "call2" /\ ~req[r1].hit
    /\ req[r1].auth = Carried(lastSettled.access_token)
    /\ req[r1].auth # req[r1].token
    /\ req[r2].pc = "call1" /\ req[r2].hit
    /\ req[r2].auth = req[r1].token

\* The call of r ended with the error of a token fetch.
FailedAtFetch(r) ==
  req[r].pc = "done" /\ req[r].out.st = "err" /\ req[r].out.err.at = "fetch"

\* C20: every resource call in flight carries a token obtained for it, the
\* first one the result of getAccessToken(), the retry the result of the
\* forced refresh.  A call whose initial getAccessToken() failed has ended
\* with that error and made no resource call; a call whose forced refresh
\* after a 401 failed has ended with the error of the token fetch, not with
\* the 401, and made no retry.
C20_NoCallWithoutToken ==
  \A r \in Requests :
    /\ req[r].pc = "call1" =>
         /\ req[r].auth # <<>> /\ req[r].auth = req[r].token
         /\ req[r].calls = 1 /\ req[r].acqs = 1
    /\ req[r].pc = "call2" =>
         /\ req[r].auth # <<>> /\ req[r].auth = req[r].refreshedToken
         /\ req[r].calls = 2 /\ req[r].acqs = 2
    /\ req[r].pc \in {"wait1", "wait2"} =>
         req[r].auth = <<>> /\ req[r].calls = req[r].acqs - 1
    /\ FailedAtFetch(r) =>
         /\ req[r].calls = req[r].acqs - 1
         /\ req[r].acqs = 1 => req[r].first = NoResponse
         /\ req[r].acqs = 2 => First401(r)
    /\ (req[r].pc = "done" /\ req[r].calls < req[r].acqs) =>
         FailedAtFetch(r)

\* C20 witness: one call has failed at its initial token fetch without a
\* resource call; another, after a 401, has failed at its forced refresh,
\* which got no response, without a retry.
C20_Witness ==
  \E r1, r2 \in Requests :
    /\ FailedAtFetch(r1) /\ req[r1].acqs = 1 /\ req[r1].calls = 0
    /\ FailedAtFetch(r2) /\ req[r2].acqs = 2 /\ req[r2].calls = 1
    /\ First401(r2)
    /\ req[r2].out.err.kind = "noresponse"

\* The request of r is a POST /patients whose body lacks one of the fields.
LacksField(q) ==
  /\ q.route = "post"
  /\ \E field \in {"fname", "lname", "DOB", "sex"} : field \notin q.body

\* C21: a POST /patients whose body lacks any of fname, lname, DOB or sex is
\* answered with 400 in the step in which it arrives; that step starts no
\* token fetch and no resource call and leaves tokenCache and tokenPromise
\* unchanged, and the request never acquires a token or calls upstream.
C21_InvalidBodyRejected ==
  /\ [](\A r \in Requests :
          LacksField(req[r]) =>
            /\ req[r].pc = "done"
            /\ req[r].res.statusCode = 400
            /\ req[r].acqs = 0 /\ req[r].calls = 0
            /\ req[r].auth = <<>> /\ req[r].promise = 0
            /\ req[r].out = NoOut)
  /\ [][\A r \in Requests :
          (req[r].pc = "idle" /\ LacksField(req'[r])) =>
            /\ nFetches' = nFetches
            /\ fetches' = fetches
            /\ tokenCache' = tokenCache
            /\ tokenPromise' = tokenPromise
            /\ cacheMeta' = cacheMeta
            /\ \A q \in Requests \ {r} : req'[q] = req[q]]_vars

\* C21 witness: a POST without `sex` has been answered with 400 while the
\* token fetch of an earlier request is still in flight and nothing is
\* cached.
C21_Witness ==
  \E r \in Requests :
    /\ req[r].route = "post"
    /\ req[r].body = {"fname", "lname", "DOB"}
    /\ req[r].pc = "done"
    /\ req[r].res.statusCode = 400
    /\ tokenPromise = 1 /\ nFetches = 1 /\ fetches # {}
    /\ ~tokenCache.present

====
